---- MODULE Spec2Model ----
(***************************************************************************)
(* Model of the DXF -> LIRA converter (src/dxf_parser.py and               *)
(* src/lira_exporter.py).                                                  *)
(*                                                                         *)
(* Python strings are modelled as sequences of one-character strings, so  *)
(* that strip(), split(), slicing and the regular expressions of the      *)
(* source are computed character by character.  A line of the input file  *)
(* keeps its trailing "\n", exactly as readline() returns it.             *)
(***************************************************************************)
EXTENDS Integers, Sequences, FiniteSets, TLC

(***************************************************************************)
(* Python string primitives.                                               *)
(***************************************************************************)
WHITESPACE == {" ", "\n", "\t"}
DIGITS == <<"0", "1", "2", "3", "4", "5", "6", "7", "8", "9">>
UPPER == <<"A","B","C","D","E","F","G","H","I","J","K","L","M",
           "N","O","P","Q","R","S","T","U","V","W","X","Y","Z">>
LOWER == <<"a","b","c","d","e","f","g","h","i","j","k","l","m",
           "n","o","p","q","r","s","t","u","v","w","x","y","z">>

IsDigit(c) == \E i \in 1..Len(DIGITS) : DIGITS[i] = c

DigitValue(c) == (CHOOSE i \in 1..Len(DIGITS) : DIGITS[i] = c) - 1

\* s[:n]
Take(s, n) == SubSeq(s, 1, IF n < Len(s) THEN n ELSE Len(s))

\* s[n:]   (n counted from 0, as in Python)
Drop(s, n) == SubSeq(s, n + 1, Len(s))

RECURSIVE LStrip(_)
LStrip(s) ==
    IF s # <<>> /\ Head(s) \in WHITESPACE THEN LStrip(Tail(s)) ELSE s

RECURSIVE RStrip(_)
RStrip(s) ==
    IF s # <<>> /\ s[Len(s)] \in WHITESPACE
    THEN RStrip(SubSeq(s, 1, Len(s) - 1))
    ELSE s

\* str.strip()
Strip(s) == RStrip(LStrip(s))

StartsWith(s, sub) == Len(s) >= Len(sub) /\ SubSeq(s, 1, Len(sub)) = sub

\* str.split(sep): the pieces between the non-overlapping occurrences of sep,
\* found left to right; empty pieces are kept.
RECURSIVE SplitFrom(_, _, _)
SplitFrom(s, sep, cur) ==
    IF s = <<>> THEN <<cur>>
    ELSE IF StartsWith(s, sep)
         THEN <<cur>> \o SplitFrom(Drop(s, Len(sep)), sep, <<>>)
         ELSE SplitFrom(Tail(s), sep, Append(cur, Head(s)))

Split(s, sep) == SplitFrom(s, sep, <<>>)

LowerChar(c) ==
    IF \E i \in 1..Len(UPPER) : UPPER[i] = c
    THEN LOWER[CHOOSE i \in 1..Len(UPPER) : UPPER[i] = c]
    ELSE c

\* str.lower()
Lower(s) == [i \in 1..Len(s) |-> LowerChar(s[i])]

\* str.isnumeric(): non-empty and every character a digit
IsNumeric(s) == s # <<>> /\ \A i \in 1..Len(s) : IsDigit(s[i])

\* the value of a string of decimal digits, as float() reads it
RECURSIVE DigitsToNat(_)
DigitsToNat(s) ==
    IF s = <<>> THEN 0
    ELSE 10 * DigitsToNat(SubSeq(s, 1, Len(s) - 1)) + DigitValue(s[Len(s)])

\* the longest run of digits at the start of s
RECURSIVE LeadingDigits(_)
LeadingDigits(s) ==
    IF s # <<>> /\ IsDigit(Head(s))
    THEN <<Head(s)>> \o LeadingDigits(Tail(s))
    ELSE <<>>

\* re.findall(letter + r"\d+", s): the matches, left to right, each match being
\* the letter followed by the longest run of digits after it.
RECURSIVE FindAll(_, _)
FindAll(letter, s) ==
    IF s = <<>> THEN <<>>
    ELSE IF Head(s) = letter /\ LeadingDigits(Tail(s)) # <<>>
         THEN LET m == <<letter>> \o LeadingDigits(Tail(s))
              IN  <<m>> \o FindAll(letter, Drop(s, Len(m)))
         ELSE FindAll(letter, Tail(s))

(***************************************************************************)
(* Program constants of src/dxf_parser.py.                                 *)
(***************************************************************************)
FLOAT_TOLLERENCE == 3

ENTITY_TYPE == <<" ", " ", "0">>

ENDOFFILE == <<"E", "N", "D", "O", "F", "F", "I", "L", "E">>

T_POINT == <<"P", "O", "I", "N", "T">>
T_LINE == <<"L", "I", "N", "E">>
T_3DFACE == <<"3", "D", "F", "A", "C", "E">>
T_LWPOLYLINE == <<"L", "W", "P", "O", "L", "Y", "L", "I", "N", "E">>
T_ENDSEC == <<"E", "N", "D", "S", "E", "C">>
T_ENTITIES == <<"E", "N", "T", "I", "T", "I", "E", "S">>

\* the keys of ENTITY_PARSERS
ENTITY_PARSERS == {T_POINT, T_LINE, T_3DFACE, T_LWPOLYLINE}

\* the faulty variant: a LINE is filed under "faces"
ENTITY_MAPS_LineAsFace(entity_type) ==
    CASE entity_type = T_POINT -> "points"
      [] entity_type = T_LINE -> "faces"
      [] entity_type = T_3DFACE -> "faces"
      [] entity_type = T_LWPOLYLINE -> "lwpolylines"

\* ENTITY_MAPS: the attribute of Layer an entity of each type is appended to.
\* Layer has the field "lwpolines"; ENTITY_MAPS names "lwpolylines".
ENTITY_MAPS(entity_type) ==
    CASE entity_type = T_POINT -> "points"
      [] entity_type = T_LINE -> "lines"
      [] entity_type = T_3DFACE -> "faces"
      [] entity_type = T_LWPOLYLINE -> "lwpolylines"

DOF_VALUES == << <<"x">>, <<"y">>, <<"z">>, <<"f", "x">>, <<"f", "y">>, <<"f", "z">> >>

IsDofValue(d) == \E i \in 1..Len(DOF_VALUES) : DOF_VALUES[i] = d

\* DOF_MAP[d]: x -> 1, y -> 2, z -> 3, fx -> 4, fy -> 5, fz -> 6
DOF_MAP(d) == CHOOSE i \in 1..Len(DOF_VALUES) : DOF_VALUES[i] = d

(***************************************************************************)
(* The id sequences.  SEQUENCES is a dict: a generator made by _counter    *)
(* writes its key on its first next() and adds the step on every later    *)
(* one, so SEQUENCES[id] is the id issued last.                            *)
(***************************************************************************)
\* SEQUENCES after next(_counter(sequence_id)); the value yielded is
\* SeqNext(SEQUENCES, sequence_id)[sequence_id].
SeqNext(SEQUENCES, sequence_id) ==
    IF sequence_id \in DOMAIN SEQUENCES
    THEN [SEQUENCES EXCEPT ![sequence_id] = @ + 1]
    ELSE (sequence_id :> 1) @@ SEQUENCES

(***************************************************************************)
(* The point registry.  POINTS is an OrderedDict: a sequence of entries    *)
(* [key, p] in insertion order.  A registry state reg is                   *)
(* [POINTS, SEQUENCES, calls], calls being the log of the calls of         *)
(* point_factory made so far (arguments and returned Point).               *)
(***************************************************************************)
strip_tollerence(num) ==
    LET f == Split(num, <<".">>)
    IN  IF Len(f) = 2
        THEN f[1] \o <<".">> \o Take(f[2], FLOAT_TOLLERENCE)
        ELSE num

Hash(x, y, z) == <<strip_tollerence(x), strip_tollerence(y), strip_tollerence(z)>>

HasKey(POINTS, hash_) == \E i \in 1..Len(POINTS) : POINTS[i].key = hash_

Lookup(POINTS, hash_) ==
    POINTS[CHOOSE i \in 1..Len(POINTS) : POINTS[i].key = hash_].p

Point(x, y, z, id) == [x |-> x, y |-> y, z |-> z, id |-> id]

\* the faulty variant: every call allocates and stores, a hit overwrites
point_factory_Overwrite(reg, x, y, z) ==
    LET hash_ == Hash(x, y, z)
        S == SeqNext(reg.SEQUENCES, "points")
        p == Point(x, y, z, S["points"])
        store == IF HasKey(reg.POINTS, hash_)
                 THEN [i \in 1..Len(reg.POINTS) |->
                          IF reg.POINTS[i].key = hash_
                          THEN [key |-> hash_, p |-> p]
                          ELSE reg.POINTS[i]]
                 ELSE Append(reg.POINTS, [key |-> hash_, p |-> p])
    IN  [ret |-> p,
         reg |-> [POINTS |-> store, SEQUENCES |-> S,
                  calls |-> Append(reg.calls, [args |-> <<x, y, z>>, ret |-> p])]]

point_factory(reg, x, y, z) ==
    LET hash_ == Hash(x, y, z)
    IN  IF HasKey(reg.POINTS, hash_)
        THEN LET p == Lookup(reg.POINTS, hash_)
             IN  [ret |-> p,
                  reg |-> [reg EXCEPT
                      !.calls = Append(@, [args |-> <<x, y, z>>, ret |-> p])]]
        ELSE LET S == SeqNext(reg.SEQUENCES, "points")
                 p == Point(x, y, z, S["points"])
             IN  [ret |-> p,
                  reg |-> [POINTS |-> Append(reg.POINTS, [key |-> hash_, p |-> p]),
                           SEQUENCES |-> S,
                           calls |-> Append(reg.calls,
                                            [args |-> <<x, y, z>>, ret |-> p])]]

(***************************************************************************)
(* The tag reader.  A stream f is [lines, pos]: the lines of the file and  *)
(* the index of the line the next readline() returns.                      *)
(***************************************************************************)
\* f.readline(): "" at the end of the file
ReadLine(f) ==
    IF f.pos > Len(f.lines)
    THEN [line |-> <<>>, f |-> f]
    ELSE [line |-> f.lines[f.pos], f |-> [f EXCEPT !.pos = @ + 1]]

RECURSIVE read_code_value(_, _)
read_code_value(f, code) ==
    LET r == ReadLine(f)
    IN  IF r.line = <<>>
        THEN [val |-> ENDOFFILE, f |-> r.f]
        ELSE IF r.line = code \o <<"\n">>
             THEN LET v == ReadLine(r.f)
                  IN  [val |-> Strip(v.line), f |-> v.f]
             ELSE read_code_value(r.f, code)

RECURSIVE read_codes(_, _)
read_codes(f, codes) ==
    IF codes = <<>> THEN [vals |-> <<>>, f |-> f]
    ELSE LET r == read_code_value(f, Head(codes))
             rest == read_codes(r.f, Tail(codes))
         IN  [vals |-> <<r.val>> \o rest.vals, f |-> rest.f]

(***************************************************************************)
(* The entity decoders.  A decoding context c is [f, reg].                 *)
(***************************************************************************)
Code(a, b) == <<" ", a, b>>

\* the codes of the i-th coordinate triple: " 1i", " 2i", " 3i"
Triple(i) == <<Code("1", i), Code("2", i), Code("3", i)>>

\* point_factory(*vals), the stream left at f
PointFrom(reg, r) == point_factory(reg, r.vals[1], r.vals[2], r.vals[3])

Decoded(q, f) == [ret |-> q.ret, c |-> [f |-> f, reg |-> q.reg]]

\* point_factory(*read_codes(f, codes))
ReadPointAt(reg, r) == Decoded(PointFrom(reg, r), r.f)

ReadPoint(c, codes) == ReadPointAt(c.reg, read_codes(c.f, codes))

\* the successive statements `p = point_factory(*read_codes(f, codes))` of a
\* decoder, one per triple of codes: the Points read, in order
RECURSIVE ReadPoints(_, _, _)
ReadPointsAfter(p, triples, acc) == ReadPoints(p.c, triples, Append(acc, p.ret))

ReadPoints(c, triples, acc) ==
    IF triples = <<>> THEN [ret |-> acc, c |-> c]
    ELSE ReadPointsAfter(ReadPoint(c, Head(triples)), Tail(triples), acc)

Line(a, b) == [a |-> a, b |-> b]

LineOf(r) == [ret |-> Line(r.ret[1], r.ret[2]), c |-> r.c]

parse_LINE(c) == LineOf(ReadPoints(c, <<Triple("0"), Triple("1")>>, <<>>))

parse_POINT(c) == ReadPoint(c, Triple("0"))

\* unique_points(*points): a point whose id was seen already is dropped
RECURSIVE UniqueFrom(_, _)
UniqueFrom(points, _points) ==
    IF points = <<>> THEN _points
    ELSE IF \E i \in 1..Len(_points) : _points[i].id = Head(points).id
         THEN UniqueFrom(Tail(points), _points)
         ELSE UniqueFrom(Tail(points), Append(_points, Head(points)))

unique_points(points) == UniqueFrom(points, <<>>)

ThreeDFace(points) == [points |-> points]

\* ThreeDFace(unique_points(a, b, d, c)), r.ret being <<a, b, c, d>>
FaceOf(r) ==
    [ret |-> ThreeDFace(unique_points(<<r.ret[1], r.ret[2], r.ret[4], r.ret[3]>>)),
     c |-> r.c]

parse_3DFACE(c) ==
    FaceOf(ReadPoints(c, <<Triple("0"), Triple("1"), Triple("2"), Triple("3")>>, <<>>))

(***************************************************************************)
(* Layers.  The dict `layers` of parse_entities is a sequence of Layer     *)
(* records in insertion order.                                             *)
(***************************************************************************)
Layer(name, id, type, attrs) ==
    [name |-> name, id |-> id, type |-> type, attrs |-> attrs,
     lines |-> <<>>, faces |-> <<>>, points |-> <<>>, lwpolines |-> <<>>]

HasLayer(layers, layer_name) ==
    \E i \in 1..Len(layers) : layers[i].name = layer_name

\* layers[layer_name]
GetLayer(layers, layer_name) ==
    layers[CHOOSE i \in 1..Len(layers) : layers[i].name = layer_name]

\* the faulty variant: the layer stays in the dict
PopLayer_Keep(layers, layer_name) == layers

\* layers after layers.pop(layer_name, None)
PopLayer(layers, layer_name) ==
    SelectSeq(layers, LAMBDA l : l.name # layer_name)

\* len(list(itertools.chain.from_iterable(layer.faces))): iterating a
\* ThreeDFace, a namedtuple with the one field `points`, yields that field,
\* so the chain holds one item per face.
ChainedFaces(faces) == Len(faces)

\* SEQUENCES after the "Reset point id sequences" part of remove_invalid_layer
ResetPointIds(SEQUENCES, layer) ==
    IF "points" \notin DOMAIN SEQUENCES \/ SEQUENCES["points"] = 0
    THEN SEQUENCES
    ELSE [SEQUENCES EXCEPT !["points"] =
             ((@ - Len(layer.lines) * 2) - Len(layer.points))
                 - ChainedFaces(layer.faces)]

remove_invalid_layer(layer_name, layers, SEQUENCES) ==
    IF ~HasLayer(layers, layer_name)
    THEN [layers |-> layers, SEQUENCES |-> SEQUENCES]
    ELSE [layers |-> PopLayer(layers, layer_name),
          SEQUENCES |-> ResetPointIds(SEQUENCES, GetLayer(layers, layer_name))]

(***************************************************************************)
(* parse_layer_name.  A float is [num, den], the float nearest num / den.  *)
(* The result None (no branch taken) and the result [] are both falsy and  *)
(* are only ever tested with `not attrs`: both are <<>>.                   *)
(***************************************************************************)
Float(num, den) == [num |-> num, den |-> den]

DOF_MARKER == <<"D", "O", "F", " ">>

\* [dof.strip() for dof in dofs.split(" ") if dof.strip() in DOF_VALUES]
RECURSIVE KnownDofs(_)
KnownDofs(parts) ==
    IF parts = <<>> THEN <<>>
    ELSE IF IsDofValue(Strip(Head(parts)))
         THEN <<Strip(Head(parts))>> \o KnownDofs(Tail(parts))
         ELSE KnownDofs(Tail(parts))

\* the faulty variant: strictly increasing codes are demanded
DofsSorted_Strict(dofs) ==
    \A i \in 1..(Len(dofs) - 1) : DOF_MAP(dofs[i]) < DOF_MAP(dofs[i + 1])

\* all(lira_dofs[i] <= lira_dofs[i + 1] ...): lira_dofs are the one-digit
\* strings "1".."6", which compare as their numbers do.
DofsSorted(dofs) ==
    \A i \in 1..(Len(dofs) - 1) : DOF_MAP(dofs[i]) <= DOF_MAP(dofs[i + 1])

\* the faulty variant: the thickness is not scaled
FaceAttrs_Unscaled(h_val) == <<Float(DigitsToNat(Drop(h_val[1], 1)), 1)>>

\* [float(h_val[0][1:]) / 100]
FaceAttrs(h_val) == <<Float(DigitsToNat(Drop(h_val[1], 1)), 100)>>

parse_layer_name(entity_type, layer_name) ==
    LET b_val == FindAll("B", layer_name)
        h_val == FindAll("H", layer_name)
    IN  CASE entity_type = T_LINE ->
               IF ~(b_val # <<>> /\ h_val # <<>>)
               THEN <<>>
               ELSE <<Float(DigitsToNat(Drop(b_val[1], 1)), 1),
                      Float(DigitsToNat(Drop(h_val[1], 1)), 1)>>
          [] entity_type = T_3DFACE ->
               IF h_val = <<>> THEN <<>> ELSE FaceAttrs(h_val)
          [] entity_type = T_POINT ->
               LET splits == Split(layer_name, DOF_MARKER)
               IN  IF Len(splits) < 2 THEN <<>>
                   ELSE LET dofs == KnownDofs(Split(Lower(splits[2]), <<" ">>))
                        IN  IF ~DofsSorted(dofs) THEN <<>> ELSE dofs
          [] OTHER -> <<>>

(***************************************************************************)
(* The exporter (src/lira_exporter.py).  A record is the sequence of its  *)
(* space-separated fields; the closing "/" and the newline are implied.    *)
(***************************************************************************)
PointIds(points) == [i \in 1..Len(points) |-> points[i].id]

LineRecord(layer, line) == <<"5", layer.id, line.a.id, line.b.id>>

FaceRecord(layer, face) ==
    IF Len(face.points) = 3
    THEN <<"42", layer.id>> \o PointIds(face.points)
    ELSE <<"44", layer.id>> \o PointIds(face.points)

LayerEntities(layer) ==
    [i \in 1..Len(layer.lines) |-> LineRecord(layer, layer.lines[i])]
        \o [i \in 1..Len(layer.faces) |-> FaceRecord(layer, layer.faces[i])]

RECURSIVE Section1(_)
Section1(layers) ==
    IF layers = <<>> THEN <<>>
    ELSE LayerEntities(Head(layers)) \o Section1(Tail(layers))

\* str(n) of a non-negative int
RECURSIVE IntStr(_)
IntStr(n) ==
    IF n < 10 THEN <<DIGITS[n + 1]>>
    ELSE IntStr(n \div 10) \o <<DIGITS[(n % 10) + 1]>>

\* str(at) of the float nearest num / den, den being 1 or 100: the shortest
\* decimal that reads back as that float
FloatStr(at) ==
    LET q == at.num \div at.den
        r == at.num % at.den
    IN  IF r = 0 THEN IntStr(q) \o <<".", "0">>
        ELSE IF r % 10 = 0 THEN IntStr(q) \o <<".">> \o IntStr(r \div 10)
        ELSE IntStr(q) \o <<".", DIGITS[(r \div 10) + 1], DIGITS[(r % 10) + 1]>>

\* " ".join([str(at) for at in layer.attrs]) of a layer that owns no Point
AttrStrs(attrs) == [i \in 1..Len(attrs) |-> FloatStr(attrs[i])]

\* the faulty variant: the one-attribute form is never chosen
LayerRecord_AlwaysS0(layer) ==
    <<layer.id, "S0", "3.06E6">> \o AttrStrs(layer.attrs)

LayerRecord(layer) ==
    IF Len(layer.attrs) = 1
    THEN <<layer.id, "3.06E6", "0.2">> \o AttrStrs(layer.attrs)
    ELSE <<layer.id, "S0", "3.06E6">> \o AttrStrs(layer.attrs)

\* `if len(layer.points) > 0: continue`
SkippedIn3(layer) == Len(layer.points) > 0

RECURSIVE Section3(_)
Section3(layers) ==
    IF layers = <<>> THEN <<>>
    ELSE IF SkippedIn3(Head(layers)) THEN Section3(Tail(layers))
         ELSE <<LayerRecord(Head(layers))>> \o Section3(Tail(layers))

\* the faulty variant: the coordinates are written y first
PointRecord_Swapped(point) == <<point.y, point.x, point.z>>

PointRecord(point) == <<point.x, point.y, point.z>>

\* one line per value of POINTS, in insertion order
Section4(points) == [i \in 1..Len(points) |-> PointRecord(points[i].p)]

\* lira_exporter.py has its own DOF_MAP, the same table as dxf_parser.py's
DofRecord(layer, point) ==
    <<point.id>> \o [i \in 1..Len(layer.attrs) |-> DOF_MAP(layer.attrs[i])]

LayerDofs(layer) ==
    [i \in 1..Len(layer.points) |-> DofRecord(layer, layer.points[i])]

RECURSIVE Section5(_)
Section5(layers) ==
    IF layers = <<>> THEN <<>>
    ELSE LayerDofs(Head(layers)) \o Section5(Tail(layers))

\* the four data sections _write_to_lira_file writes
Exported(layers, points) ==
    [s1 |-> Section1(layers), s3 |-> Section3(layers),
     s4 |-> Section4(points), s5 |-> Section5(layers)]

(***************************************************************************)
(* The input files: a HEADER section, then an ENTITIES section holding up  *)
(* to MaxEntities entity blocks drawn from BLOCKS, closed by ENDSEC/EOF.   *)
(***************************************************************************)
MaxEntities == 3

NL(s) == s \o <<"\n">>

CODE_SECTION == <<" ", " ", "2">>
CODE_LAYER == <<" ", " ", "8">>

P_A == << <<"0", ".", "0">>, <<"0", ".", "0">>, <<"0", ".", "0">> >>
P_B == << <<"1", ".", "2", "3", "9", "9">>, <<"0", ".", "0", "0", "0">>, <<"0", ".", "0">> >>
\* the same canonical key as P_B
P_B2 == << <<"1", ".", "2", "3", "9", "1">>, <<"0", ".", "0", "0", "0", "7">>, <<"0", ".", "0">> >>
P_C == << <<"1", ".", "2", "3">>, <<"2">>, <<"0", ".", "0">> >>
P_D == << <<"5">>, <<"5", ".", "0">>, <<"0", ".", "0">> >>
P_E == << <<"8", ".", "5">>, <<"5", ".", "0">>, <<"0", ".", "0">> >>

N_L == <<"L", "1", " ", "B", "1", "0", " ", "H", "2", "0">>
N_M == <<"M", " ", "B", "7">>
N_F == <<"F", " ", "H", "5">>
\* accepted: a repeated token, an upper-case one, a two-letter one
N_S == <<"S", " ", "D", "O", "F", " ", "x", " ", "X", " ", "f", "z">>
\* out of order
N_T == <<"T", " ", "D", "O", "F", " ", "z", " ", "x">>
\* the marker, and no degree of freedom after it
N_U == <<"U", " ", "D", "O", "F", " ", "q">>

\* the tags of one coordinate triple: codes 1i, 2i, 3i
Coords(i, p) ==
    <<NL(Triple(i)[1]), NL(p[1]), NL(Triple(i)[2]), NL(p[2]),
      NL(Triple(i)[3]), NL(p[3])>>

Entity(type, name, body) ==
    <<NL(ENTITY_TYPE), NL(type), NL(CODE_LAYER), NL(name)>> \o body

LineBlock(name, a, b) ==
    Entity(T_LINE, name, Coords("0", a) \o Coords("1", b))

FaceBlock(name, a, b, c, d) ==
    Entity(T_3DFACE, name,
           Coords("0", a) \o Coords("1", b) \o Coords("2", c) \o Coords("3", d))

PointBlock(name, a) == Entity(T_POINT, name, Coords("0", a))

BLOCKS ==
    << LineBlock(N_L, P_A, P_B),
       LineBlock(N_M, P_A, P_D),
       FaceBlock(N_F, P_A, P_B, P_C, P_D),
       FaceBlock(N_F, P_A, P_B2, P_A, P_D),
       FaceBlock(N_F, P_A, P_A, P_B, P_B),
       FaceBlock(N_M, P_D, P_C, P_B, P_A),
       PointBlock(N_S, P_A),
       PointBlock(N_T, P_B),
       PointBlock(N_U, P_C),
       PointBlock(N_L, P_E),
       Entity(<<"C", "I", "R", "C", "L", "E">>, N_L,
              <<NL(Code("1", "0")), NL(<<"9", ".", "0">>)>>),
       <<NL(ENTITY_TYPE), NL(<<"7">>)>>,
       Entity(T_LWPOLYLINE, N_F,
              <<NL(Code("9", "0")), NL(<<"1">>),
                NL(Code("1", "0")), NL(<<"0", ".", "0">>),
                NL(Code("2", "0")), NL(<<"0", ".", "0">>)>>) >>

HEADER_LINES ==
    <<NL(ENTITY_TYPE), NL(<<"S", "E", "C", "T", "I", "O", "N">>),
      NL(CODE_SECTION), NL(<<"H", "E", "A", "D", "E", "R">>),
      NL(ENTITY_TYPE), NL(T_ENDSEC),
      NL(ENTITY_TYPE), NL(<<"S", "E", "C", "T", "I", "O", "N">>),
      NL(CODE_SECTION), NL(T_ENTITIES)>>

FOOTER_LINES ==
    <<NL(ENTITY_TYPE), NL(T_ENDSEC), NL(ENTITY_TYPE), NL(<<"E", "O", "F">>)>>

RECURSIVE Concat(_)
Concat(blocks) ==
    IF blocks = <<>> THEN <<>> ELSE Head(blocks) \o Concat(Tail(blocks))

FileLines(choice) ==
    HEADER_LINES \o Concat([i \in 1..Len(choice) |-> BLOCKS[choice[i]]])
        \o FOOTER_LINES

(***************************************************************************)
(* The state.                                                              *)
(*   f            the open file: its lines and the read position          *)
(*   POINTS, SEQUENCES   the module globals of dxf_parser                  *)
(*   calls        the log of the calls of point_factory                    *)
(*   layers       the dict `layers` of parse_entities                      *)
(*   result       the list `layers` of parse_dxf                           *)
(*   entity_type, layer_name   the locals of parse_entities                *)
(*   pc           "sections" (the loop of parse_dxf), "entities" (the     *)
(*                loop of parse_entities), "export", "done"                *)
(*   branch       the way the last iteration of parse_entities ended      *)
(*   invalidated  the layer names removed by remove_invalid_layer in this  *)
(*                run of parse_entities                                    *)
(*   out          the exported file, by section                           *)
(*   seen         the numbers of the lines at which parse_entities found   *)
(*                an entity marker                                         *)
(*   poly         the outcome of a direct call of parse_LWPOLYLINE         *)
(***************************************************************************)
VARIABLES f, POINTS, SEQUENCES, calls, layers, result, entity_type,
          layer_name, pc, branch, invalidated, out, seen, poly

vars == <<f, POINTS, SEQUENCES, calls, layers, result, entity_type,
          layer_name, pc, branch, invalidated, out, seen, poly>>

UNSET == <<>>

Init ==
    /\ \E n \in 0..MaxEntities :
         \E choice \in [1..n -> 1..Len(BLOCKS)] :
            f = [lines |-> FileLines(choice), pos |-> 1]
    /\ POINTS = <<>>
    /\ SEQUENCES = <<>>
    /\ calls = <<>>
    /\ layers = <<>>
    /\ result = <<>>
    /\ entity_type = UNSET
    /\ layer_name = UNSET
    /\ pc = "sections"
    /\ branch = "none"
    /\ invalidated = {}
    /\ out = UNSET
    /\ seen = {}
    /\ poly = UNSET

(***************************************************************************)
(* parse_dxf: the section loop.                                            *)
(***************************************************************************)
Section == read_code_value(f, CODE_SECTION)

SectionEnd ==
    /\ pc = "sections"
    /\ Section.val = ENDOFFILE
    /\ f' = Section.f
    /\ pc' = "export"
    /\ UNCHANGED <<POINTS, SEQUENCES, calls, layers, result, entity_type,
                   layer_name, branch, invalidated, out, seen, poly>>

SectionEntities ==
    /\ pc = "sections"
    /\ Section.val = T_ENTITIES
    /\ f' = Section.f
    /\ layers' = <<>>
    /\ invalidated' = {}
    /\ pc' = "entities"
    /\ UNCHANGED <<POINTS, SEQUENCES, calls, result, entity_type, layer_name,
                   branch, out, seen, poly>>

SectionOther ==
    /\ pc = "sections"
    /\ Section.val \notin {ENDOFFILE, T_ENTITIES}
    /\ f' = Section.f
    /\ UNCHANGED <<POINTS, SEQUENCES, calls, layers, result, entity_type,
                   layer_name, pc, branch, invalidated, out, seen, poly>>

(***************************************************************************)
(* parse_entities: one action per way an iteration of its loop can end.   *)
(***************************************************************************)
\* entity_type = read_code_value(f, ENTITY_TYPE)
TypeRead == read_code_value(f, ENTITY_TYPE)

\* the number of the line at which read_code_value(f, code) finds the code,
\* 0 when it reaches the end of the file
RECURSIVE FoundAt(_, _)
FoundAt(stream, code) ==
    IF stream.pos > Len(stream.lines) THEN 0
    ELSE IF stream.lines[stream.pos] = NL(code) THEN stream.pos
         ELSE FoundAt([stream EXCEPT !.pos = @ + 1], code)

MarkerSeen == {FoundAt(f, ENTITY_TYPE)} \ {0}

\* layer_name = read_code_value(f, "  8")
NameRead == read_code_value(TypeRead.f, CODE_LAYER)

\* the faulty variant: the end of the stream does not end the loop
AtEnd_EndsecOnly == TypeRead.val = T_ENDSEC

AtEnd == TypeRead.val = T_ENDSEC \/ TypeRead.val = ENDOFFILE

HasParser == ~AtEnd /\ ~IsNumeric(TypeRead.val) /\ TypeRead.val \in ENTITY_PARSERS

\* layer.type != entity_type
KindDiffers(layer, type) == layer.type # type

\* `layer and layer.type != entity_type`
Mixed ==
    /\ HasLayer(layers, NameRead.val)
    /\ KindDiffers(GetLayer(layers, NameRead.val), TypeRead.val)

\* attrs = parse_layer_name(entity_type, layer_name)
Attrs == parse_layer_name(TypeRead.val, NameRead.val)

\* `not attrs`
Rejected(attrs) == attrs = <<>>

\* entity_parser(f): ENTITY_PARSERS[entity_type](f)
Decode(type, c) ==
    CASE type = T_POINT -> parse_POINT(c)
      [] type = T_LINE -> parse_LINE(c)
      [] type = T_3DFACE -> parse_3DFACE(c)

\* getattr(layer, ENTITY_MAPS[entity_type]).append(entity)
AppendEntity(ls, name, type, entity) ==
    [i \in 1..Len(ls) |->
        IF ls[i].name = name
        THEN [ls[i] EXCEPT ![ENTITY_MAPS(type)] = Append(@, entity)]
        ELSE ls[i]]

EntBreak ==
    /\ pc = "entities"
    /\ AtEnd
    /\ f' = TypeRead.f
    /\ entity_type' = TypeRead.val
    /\ seen' = seen \cup MarkerSeen
    /\ branch' = "break"
    /\ result' = layers
    /\ pc' = "sections"
    /\ UNCHANGED <<POINTS, SEQUENCES, calls, layers, layer_name, invalidated, out, poly>>

EntNumeric ==
    /\ pc = "entities"
    /\ ~AtEnd
    /\ IsNumeric(TypeRead.val)
    /\ f' = TypeRead.f
    /\ entity_type' = TypeRead.val
    /\ seen' = seen \cup MarkerSeen
    /\ branch' = "numeric"
    /\ UNCHANGED <<POINTS, SEQUENCES, calls, layers, result, layer_name, pc,
                   invalidated, out, poly>>

EntNoParser ==
    /\ pc = "entities"
    /\ ~AtEnd
    /\ ~IsNumeric(TypeRead.val)
    /\ TypeRead.val \notin ENTITY_PARSERS
    /\ f' = TypeRead.f
    /\ entity_type' = TypeRead.val
    /\ seen' = seen \cup MarkerSeen
    /\ branch' = "noparser"
    /\ UNCHANGED <<POINTS, SEQUENCES, calls, layers, result, layer_name, pc,
                   invalidated, out, poly>>

EntMixed ==
    /\ pc = "entities"
    /\ HasParser
    /\ Mixed
    /\ LET r == remove_invalid_layer(NameRead.val, layers, SEQUENCES)
       IN  /\ layers' = r.layers
           /\ SEQUENCES' = r.SEQUENCES
    /\ f' = NameRead.f
    /\ entity_type' = TypeRead.val
    /\ seen' = seen \cup MarkerSeen
    /\ layer_name' = NameRead.val
    /\ branch' = "mixed"
    /\ invalidated' = invalidated \cup {NameRead.val}
    /\ UNCHANGED <<POINTS, calls, result, pc, out, poly>>

EntInvalidName ==
    /\ pc = "entities"
    /\ HasParser
    /\ ~Mixed
    /\ ~HasLayer(layers, NameRead.val)
    /\ Rejected(Attrs)
    /\ f' = NameRead.f
    /\ entity_type' = TypeRead.val
    /\ seen' = seen \cup MarkerSeen
    /\ layer_name' = NameRead.val
    /\ branch' = "invalid"
    /\ UNCHANGED <<POINTS, SEQUENCES, calls, layers, result, pc, invalidated, out, poly>>

\* A Layer of type LWPOLYLINE is never in `layers` (parse_layer_name has no
\* branch for it), so the decoder run here is one of the other three.
EntDecode ==
    /\ pc = "entities"
    /\ HasParser
    /\ ~Mixed
    /\ ~(~HasLayer(layers, NameRead.val) /\ Rejected(Attrs))
    /\ LET isNew == ~HasLayer(layers, NameRead.val)
           S1 == IF isNew THEN SeqNext(SEQUENCES, "layers") ELSE SEQUENCES
           ls1 == IF isNew
                  THEN Append(layers,
                              Layer(NameRead.val, S1["layers"], TypeRead.val, Attrs))
                  ELSE layers
           d == Decode(TypeRead.val,
                       [f |-> NameRead.f,
                        reg |-> [POINTS |-> POINTS, SEQUENCES |-> S1,
                                 calls |-> calls]])
       IN  /\ f' = d.c.f
           /\ POINTS' = d.c.reg.POINTS
           /\ SEQUENCES' = d.c.reg.SEQUENCES
           /\ calls' = d.c.reg.calls
           /\ layers' = AppendEntity(ls1, NameRead.val, TypeRead.val, d.ret)
    /\ entity_type' = TypeRead.val
    /\ seen' = seen \cup MarkerSeen
    /\ layer_name' = NameRead.val
    /\ branch' = "decoded"
    /\ UNCHANGED <<result, pc, invalidated, out, poly>>

(***************************************************************************)
(* export_to_lira_csv(layers, POINTS.values(), result_fname)               *)
(***************************************************************************)
Export ==
    /\ pc = "export"
    /\ out' = Exported(result, POINTS)
    /\ pc' = "done"
    /\ UNCHANGED <<f, POINTS, SEQUENCES, calls, layers, result, entity_type,
                   layer_name, branch, invalidated, seen, poly>>

Next ==
    \/ SectionEnd
    \/ SectionEntities
    \/ SectionOther
    \/ EntBreak
    \/ EntNumeric
    \/ EntNoParser
    \/ EntMixed
    \/ EntInvalidName
    \/ EntDecode
    \/ Export

Spec == Init /\ [][Next]_vars

(***************************************************************************)
(* Properties.                                                             *)
(***************************************************************************)
KeyOf(args) == Hash(args[1], args[2], args[3])

\* the first call of point_factory whose arguments have the key of call i
FirstCall(i) ==
    CHOOSE k \in 1..i :
        /\ KeyOf(calls[k].args) = KeyOf(calls[i].args)
        /\ \A m \in 1..(k - 1) : KeyOf(calls[m].args) # KeyOf(calls[i].args)

\* C1: two calls of point_factory whose coordinate triples truncate to the
\* same key return the identical Point: the id given at the first call under
\* that key, and the coordinates of that first call.
C1_SameKeySamePoint ==
    \A i \in 1..Len(calls) :
        LET first == calls[FirstCall(i)]
        IN  /\ calls[i].ret = first.ret
            /\ <<first.ret.x, first.ret.y, first.ret.z>> = first.args

\* a triple that differs from an earlier one with the same key was looked
\* up after a layer had been invalidated
C1_Witness ==
    /\ invalidated # {}
    /\ \E i \in 1..Len(calls) :
          /\ calls[i].args # calls[FirstCall(i)].args
          /\ calls[i].ret.id = calls[FirstCall(i)].ret.id

\* C2: the ids of the Points created, in creation order, start at 1 and are
\* strictly increasing, so no id is issued twice.
C2_IdsStrictlyIncreasing ==
    \A i \in 1..Len(POINTS) :
        /\ i = 1 => POINTS[i].p.id = 1
        /\ \A j \in 1..(i - 1) : POINTS[j].p.id < POINTS[i].p.id

\* C3: in every layer of the layer map only the collection that matches the
\* layer's type holds entities.
C3_Homogeneous ==
    \A i \in 1..Len(layers) :
        /\ layers[i].type # T_LINE => layers[i].lines = <<>>
        /\ layers[i].type # T_3DFACE => layers[i].faces = <<>>
        /\ layers[i].type # T_POINT => layers[i].points = <<>>
        /\ layers[i].type # T_LWPOLYLINE => layers[i].lwpolines = <<>>

\* a layer made again under a name that was invalidated holds entities
C3_Witness ==
    \E i \in 1..Len(layers) :
        /\ layers[i].name \in invalidated
        /\ layers[i].lines # <<>> \/ layers[i].faces # <<>>

\* the next entity has a decoder and its layer name is that of an existing
\* layer of another kind
ArrivesMixed ==
    /\ pc = "entities"
    /\ HasParser
    /\ \E i \in 1..Len(layers) :
          layers[i].name = NameRead.val /\ layers[i].type # TypeRead.val

\* C4: an entity arriving under the name of an existing layer of another
\* kind removes that layer, with all it collected, from the layer map; the
\* entity is not decoded (the registry is untouched) and joins no layer.
C4_MixedKindRemovesLayer ==
    [][ArrivesMixed =>
          /\ ~HasLayer(layers', NameRead.val)
          /\ layers' = SelectSeq(layers, LAMBDA l : l.name # NameRead.val)
          /\ POINTS' = POINTS
          /\ calls' = calls]_vars

\* a layer that held entities has just been removed
C4_Witness ==
    /\ branch = "mixed"
    /\ ~HasLayer(layers, layer_name)
    /\ POINTS # <<>>
    /\ layers # <<>>

RECURSIVE FacePointCount(_)
FacePointCount(faces) ==
    IF faces = <<>> THEN 0
    ELSE Len(Head(faces).points) + FacePointCount(Tail(faces))

\* C5: invalidating a layer takes 2 per line, 1 per point and the number of
\* points of every face of the layer off the point id sequence.
C5_RollbackAmount ==
    [][ArrivesMixed =>
          LET layer == GetLayer(layers, NameRead.val)
          IN  SEQUENCES'["points"] =
                  SEQUENCES["points"]
                      - (2 * Len(layer.lines) + Len(layer.points)
                             + FacePointCount(layer.faces))]_vars

\* C6: the list parse_entities returns holds no layer under a name that was
\* invalidated.
C6_InvalidatedNameStaysOut ==
    branch = "break" =>
        \A i \in 1..Len(result) : result[i].name \notin invalidated

PairwiseDistinct(s) == \A i, j \in 1..Len(s) : i # j => s[i] # s[j]

\* the four calls of point_factory of the 3DFACE decoded last: a, b, c, d
Corner(k) == calls[Len(calls) - 4 + k]

LastFaceLayer == GetLayer(layers, layer_name)

LastFace == LastFaceLayer.faces[Len(LastFaceLayer.faces)]

\* C7: a 3DFACE with four distinct corners a, b, c, d exports as
\* 44 <layer id> <ids of a, b, d, c>; when c coincides with a (and a, b, d
\* are distinct) it exports as 42 <layer id> <ids of a, b, d>.
C7_FaceOrderAndTag ==
    (branch = "decoded" /\ entity_type = T_3DFACE) =>
        LET a == Corner(1)
            b == Corner(2)
            c == Corner(3)
            d == Corner(4)
            rec == FaceRecord(LastFaceLayer, LastFace)
        IN  /\ PairwiseDistinct(<<KeyOf(a.args), KeyOf(b.args),
                                  KeyOf(c.args), KeyOf(d.args)>>)
                  => rec = <<"44", LastFaceLayer.id,
                             a.ret.id, b.ret.id, d.ret.id, c.ret.id>>
            /\ (/\ KeyOf(c.args) = KeyOf(a.args)
                /\ PairwiseDistinct(<<KeyOf(a.args), KeyOf(b.args), KeyOf(d.args)>>))
                  => rec = <<"42", LastFaceLayer.id, a.ret.id, b.ret.id, d.ret.id>>

\* C8: every stored Face has 3 or 4 pairwise distinct Points, so a record
\* tagged 44 carries 4 point ids and one tagged 42 carries 3.
C8_FaceHasThreeOrFourPoints ==
    \A i \in 1..Len(layers) :
        \A k \in 1..Len(layers[i].faces) :
            LET face == layers[i].faces[k]
                rec == FaceRecord(layers[i], face)
            IN  /\ Len(face.points) \in {3, 4}
                /\ PairwiseDistinct(face.points)
                /\ rec[1] = "44" => Len(rec) = 2 + 4
                /\ rec[1] = "42" => Len(rec) = 2 + 3

\* the next entity is a LINE or a 3DFACE under a name no layer has
ArrivesNew(types) ==
    /\ pc = "entities"
    /\ HasParser
    /\ TypeRead.val \in types
    /\ ~HasLayer(layers, NameRead.val)

Digits(letter, name) == Drop(FindAll(letter, name)[1], 1)

\* C9: a LINE under a new name makes a layer with attrs [B, H] when the name
\* holds B<digits> and H<digits>, a 3DFACE one with attrs [H / 100] when it
\* holds H<digits>; otherwise nothing is made: the layer map, the registry
\* and both id sequences stay as they were.
C9_LineAndFaceNames ==
    [][ArrivesNew({T_LINE, T_3DFACE}) =>
          LET name == NameRead.val
              hasB == FindAll("B", name) # <<>>
              hasH == FindAll("H", name) # <<>>
              isLine == TypeRead.val = T_LINE
          IN  IF (isLine /\ hasB /\ hasH) \/ (~isLine /\ hasH)
              THEN /\ HasLayer(layers', name)
                   /\ GetLayer(layers', name).type = TypeRead.val
                   /\ GetLayer(layers', name).attrs =
                         IF isLine
                         THEN <<Float(DigitsToNat(Digits("B", name)), 1),
                                Float(DigitsToNat(Digits("H", name)), 1)>>
                         ELSE <<Float(DigitsToNat(Digits("H", name)), 100)>>
              ELSE /\ layers' = layers
                   /\ POINTS' = POINTS
                   /\ SEQUENCES' = SEQUENCES]_vars

\* a LINE layer with attrs [10, 20] exists and a 3DFACE whose name lacks
\* H<digits> has just been discarded
C9_Witness ==
    /\ branch = "invalid"
    /\ entity_type = T_3DFACE
    /\ \E i \in 1..Len(layers) :
          layers[i].type = T_LINE /\ layers[i].attrs = <<Float(10, 1), Float(20, 1)>>

HasDofMarker(name) == Len(Split(name, DOF_MARKER)) >= 2

\* the degree-of-freedom tokens listed after the marker
ListedDofs(name) ==
    KnownDofs(Split(Lower(Split(name, DOF_MARKER)[2]), <<" ">>))

NonDecreasing(dofs) ==
    \A i, j \in 1..Len(dofs) : i < j => DOF_MAP(dofs[i]) <= DOF_MAP(dofs[j])

\* C10 (as stated): a POINT under a new name holding the marker "DOF " makes
\* a layer exactly when the listed tokens are in non-decreasing code order,
\* and the attrs of the layer are the token list.
C10_AcceptedIffSorted ==
    [][(ArrivesNew({T_POINT}) /\ HasDofMarker(NameRead.val)) =>
          /\ HasLayer(layers', NameRead.val)
                <=> NonDecreasing(ListedDofs(NameRead.val))
          /\ HasLayer(layers', NameRead.val)
                => GetLayer(layers', NameRead.val).attrs = ListedDofs(NameRead.val)]_vars

\* C10 (amended): the layer is made exactly when the listed tokens are at
\* least one and in non-decreasing code order; its attrs are the token list.
C10_AcceptedIffSortedNonEmpty ==
    [][(ArrivesNew({T_POINT}) /\ HasDofMarker(NameRead.val)) =>
          /\ HasLayer(layers', NameRead.val)
                <=> (/\ ListedDofs(NameRead.val) # <<>>
                     /\ NonDecreasing(ListedDofs(NameRead.val)))
          /\ HasLayer(layers', NameRead.val)
                => GetLayer(layers', NameRead.val).attrs = ListedDofs(NameRead.val)]_vars

\* a POINT layer with a repeated token exists and a POINT under a name with
\* the marker has just been rejected
C10_Witness ==
    /\ branch = "invalid"
    /\ entity_type = T_POINT
    /\ HasDofMarker(layer_name)
    /\ \E i \in 1..Len(layers) :
          layers[i].type = T_POINT /\ layers[i].attrs = << <<"x">>, <<"x">>, <<"f", "z">> >>

\* C11: an LWPOLYLINE under a name no layer has, whatever the name is, makes
\* a layer of kind LWPOLYLINE with empty attrs, and the decoded polyline is
\* appended to the polyline collection of that layer.
C11_PolylineLayerCreated ==
    [][ArrivesNew({T_LWPOLYLINE}) =>
          /\ HasLayer(layers', NameRead.val)
          /\ GetLayer(layers', NameRead.val).type = T_LWPOLYLINE
          /\ GetLayer(layers', NameRead.val).attrs = <<>>
          /\ GetLayer(layers', NameRead.val).lwpolines # <<>>]_vars

(***************************************************************************)
(* Truncated and malformed files: up to MaxCutEntities blocks drawn from   *)
(* CUT_BLOCKS between the header and the footer, the file ending after any *)
(* number of its lines.                                                    *)
(***************************************************************************)
MaxCutEntities == 2

T_CIRCLE == <<"C", "I", "R", "C", "L", "E">>

CUT_BLOCKS ==
    << LineBlock(N_L, P_A, P_B),
       PointBlock(N_L, P_E),
       PointBlock(N_S, P_A),
       \* a POINT without its code 30
       Entity(T_POINT, N_S, Take(Coords("0", P_D), 4)),
       \* entities of an unknown type with a value that reads "  0"
       Entity(T_CIRCLE, N_L,
              <<NL(Code("6", "2")), NL(ENTITY_TYPE),
                NL(Code("1", "0")), NL(<<"9", ".", "0">>)>>),
       Entity(T_CIRCLE, N_L,
              <<NL(Code("1", "0")), NL(<<"9", ".", "0">>),
                NL(Code("6", "2")), NL(ENTITY_TYPE)>>),
       FaceBlock(N_F, P_A, P_B, P_C, P_D) >>

CutFile(choice) ==
    HEADER_LINES \o Concat([i \in 1..Len(choice) |-> CUT_BLOCKS[choice[i]]])
        \o FOOTER_LINES

InitCut ==
    /\ \E n \in 0..MaxCutEntities :
         \E choice \in [1..n -> 1..Len(CUT_BLOCKS)] :
            \E cut \in 0..Len(CutFile(choice)) :
               f = [lines |-> Take(CutFile(choice), cut), pos |-> 1]
    /\ POINTS = <<>>
    /\ SEQUENCES = <<>>
    /\ calls = <<>>
    /\ layers = <<>>
    /\ result = <<>>
    /\ entity_type = UNSET
    /\ layer_name = UNSET
    /\ pc = "sections"
    /\ branch = "none"
    /\ invalidated = {}
    /\ out = UNSET
    /\ seen = {}
    /\ poly = UNSET

SpecCut == InitCut /\ [][Next]_vars

HasSentinel(p) == ENDOFFILE \in {p.x, p.y, p.z}

\* the Points of the entities a layer holds
LayerPoints(layer) ==
    {layer.lines[i].a : i \in 1..Len(layer.lines)}
        \cup {layer.lines[i].b : i \in 1..Len(layer.lines)}
        \cup UNION {{layer.faces[i].points[k] : k \in 1..Len(layer.faces[i].points)} :
                       i \in 1..Len(layer.faces)}
        \cup {layer.points[i] : i \in 1..Len(layer.points)}

\* C12: when the stream ends while a POINT, LINE or 3DFACE decoder reads its
\* coordinate codes, no Point with the sentinel ENDOFFILE as a coordinate is
\* entered in the registry (so no id is consumed for one) and no entity
\* built from such a Point is appended to a layer.
C12_NoSentinelPoint ==
    /\ \A i \in 1..Len(POINTS) : ~HasSentinel(POINTS[i].p)
    /\ \A i \in 1..Len(layers) : \A p \in LayerPoints(layers[i]) : ~HasSentinel(p)

\* C13: the file holding one LINE on layer "L1 B10 H20" with two distinct
\* endpoints, parsed on a fresh registry, exports exactly the section-1
\* record 5 1 1 2, exactly the section-3 record 1 S0 3.06E6 10.0 20.0, the
\* two endpoints' coordinates as section-4 lines in input order, and no
\* section-5 record.
C13_SingleLineRoundTrip ==
    (pc = "done" /\ f.lines = FileLines(<<1>>)) =>
        /\ out.s1 = << <<"5", 1, 1, 2>> >>
        /\ out.s3 = << <<1, "S0", "3.06E6",
                         <<"1", "0", ".", "0">>, <<"2", "0", ".", "0">> >> >>
        /\ out.s4 = <<P_A, P_B>>
        /\ out.s5 = <<>>

\* the one-LINE file has been parsed and exported
C13_Witness ==
    /\ pc = "done"
    /\ f.lines = FileLines(<<1>>)
    /\ Len(out.s1) = 1
    /\ Len(result) = 1
    /\ result[1].name = N_L

\* the section-3 records that start with the layer id `id`
Records3(id) == {k \in 1..Len(out.s3) : out.s3[k][1] = id}

\* the number of Points owned by the layers before the i-th
RECURSIVE OwnedBefore(_)
OwnedBefore(i) ==
    IF i = 1 THEN 0 ELSE OwnedBefore(i - 1) + Len(result[i - 1].points)

\* C14: every exported layer contributes to exactly one of sections 3 and 5.
\* A layer owning no Point gives exactly one section-3 record, of the form
\* <id> S0 3.06E6 <a1> <a2> for two attrs and <id> 3.06E6 0.2 <a1> for one,
\* and no section-5 record; a layer owning Points gives no section-3 record
\* and one section-5 record per owned Point: the point id, then the layer's
\* DOF codes in stored order.  So every layer id used in a section-1 record
\* has exactly one section-3 record.
C14_LayerInOneSection ==
    pc = "done" =>
        /\ \A i \in 1..Len(result) :
              LET l == result[i]
              IN  IF l.points = <<>>
                  THEN /\ Cardinality(Records3(l.id)) = 1
                       /\ \A k \in Records3(l.id) :
                             /\ Len(l.attrs) = 2 =>
                                   out.s3[k] = <<l.id, "S0", "3.06E6",
                                                 FloatStr(l.attrs[1]),
                                                 FloatStr(l.attrs[2])>>
                             /\ Len(l.attrs) = 1 =>
                                   out.s3[k] = <<l.id, "3.06E6", "0.2",
                                                 FloatStr(l.attrs[1])>>
                  ELSE /\ Records3(l.id) = {}
                       /\ \A k \in 1..Len(l.points) :
                             out.s5[OwnedBefore(i) + k] =
                                 <<l.points[k].id>>
                                     \o [d \in 1..Len(l.attrs) |-> DOF_MAP(l.attrs[d])]
        /\ Len(out.s5) = OwnedBefore(Len(result) + 1)
        /\ \A r \in 1..Len(out.s1) : Cardinality(Records3(out.s1[r][2])) = 1

\* a layer of each kind has been exported: two attrs, one attr, and Points
C14_Witness ==
    /\ pc = "done"
    /\ \E i, j, k \in 1..Len(result) :
          /\ result[i].points = <<>> /\ Len(result[i].attrs) = 2
          /\ result[j].points = <<>> /\ Len(result[j].attrs) = 1
          /\ Len(result[k].points) > 0 /\ Len(result[k].attrs) = 3
    /\ Len(out.s3) = 2
    /\ Len(out.s5) = 1

\* the entity markers of the file read as (code-line, value-line) pairs: the
\* code-lines, which are the odd lines, that hold the entity code
TrueMarkers ==
    {i \in 1..Len(f.lines) : i % 2 = 1 /\ f.lines[i] = NL(ENTITY_TYPE)}

\* the entity type announced at marker i
TypeAt(i) == IF i + 1 <= Len(f.lines) THEN Strip(f.lines[i + 1]) ELSE <<>>

Unknown(type) ==
    /\ type \notin ENTITY_PARSERS
    /\ type \notin {T_ENDSEC, ENDOFFILE}
    /\ ~IsNumeric(type)

\* marker i is the first marker after marker j
NextMarker(j, i) ==
    /\ j \in TrueMarkers
    /\ i \in TrueMarkers
    /\ j < i
    /\ \A k \in TrueMarkers : ~(j < k /\ k < i)

\* C15: an entity whose type has no decoder is skipped: the iteration leaves
\* the layer map, the point registry and both id sequences as they were, and
\* the recognised entity that follows it is still met by parse_entities, so
\* that it is decoded as if the unknown entity were absent.
C15_UnknownEntitySkipped ==
    [][/\ (pc = "entities" /\ ~AtEnd /\ Unknown(TypeRead.val)) =>
             /\ layers' = layers
             /\ POINTS' = POINTS
             /\ SEQUENCES' = SEQUENCES
       /\ (pc = "entities" /\ AtEnd) =>
             \A j, i \in TrueMarkers :
                 (/\ NextMarker(j, i)
                  /\ j \in seen'
                  /\ Unknown(TypeAt(j))
                  /\ TypeAt(i) \in ENTITY_PARSERS
                  /\ i < f'.pos)
                     => i \in seen']_vars

\* the stream read as (code-line, value-line) pairs from the current
\* position: the trimmed value of the first pair whose code-line is `code`
RECURSIVE PairedRead(_, _)
PairedRead(stream, code) ==
    LET c == ReadLine(stream)
        v == ReadLine(c.f)
    IN  IF c.line = <<>> THEN [val |-> ENDOFFILE, f |-> c.f]
        ELSE IF c.line = NL(code) THEN [val |-> Strip(v.line), f |-> v.f]
        ELSE IF v.line = <<>> THEN [val |-> ENDOFFILE, f |-> v.f]
        ELSE PairedRead(v.f, code)

\* C16: read_code_value returns the trimmed value line of the first
\* (code-line, value-line) pair, from the current position, whose code-line
\* is the requested code, and leaves the stream just after that value line;
\* a value line that reads like the code is not taken for a code-line.
C16_ReadsPairs ==
    /\ pc = "sections" => Section = PairedRead(f, CODE_SECTION)
    /\ pc = "entities" => TypeRead = PairedRead(f, ENTITY_TYPE)

(***************************************************************************)
(* parse_LWPOLYLINE, called directly on a stream.  parse_entities never    *)
(* reaches it (no Layer of kind LWPOLYLINE exists).  An outcome is         *)
(* [raised, ret, c]: the exception that ends the call ("none" when it      *)
(* returns), the set of Points of the LwPolyLine returned, the context.    *)
(***************************************************************************)
Z_FIXED == <<"0", ".", "0", "0">>

Returned(points, c) == [raised |-> "none", ret |-> points, c |-> c]

Raised(error, c) == [raised |-> error, ret |-> {}, c |-> c]

\* points.add(Point(point_factory(x, y, z))): point_factory registers the
\* Point, then Point(...) with one argument raises TypeError
PolyAdd(q, stream) == Raised("TypeError", [f |-> stream, reg |-> q.reg])

\* y = read_code_value(f, " 20"), x being the line read before it
PolyVertexAt(reg, x, y) == PolyAdd(point_factory(reg, x, y.val, Z_FIXED), y.f)

\* `line == "  0"`
IsPolyMarker(line) == line = ENTITY_TYPE

\* the body of the loop, r being the outcome of line = f.readline()
PolyVertex(c, r) ==
    IF r.line = <<>> THEN Returned({}, [c EXCEPT !.f = r.f])
    ELSE IF IsPolyMarker(r.line) THEN Returned({}, [c EXCEPT !.f = r.f])
    ELSE PolyVertexAt(c.reg, Strip(r.line), read_code_value(r.f, Code("2", "0")))

\* for _ in range(int(n_verticies)): int() of the digit strings and of the
\* sentinel; the first vertex ends the loop, by break or by the TypeError
PolyLoop(c, n) ==
    IF ~IsNumeric(n.val) THEN Raised("ValueError", [c EXCEPT !.f = n.f])
    ELSE IF DigitsToNat(n.val) = 0 THEN Returned({}, [c EXCEPT !.f = n.f])
    ELSE PolyVertex([c EXCEPT !.f = n.f], ReadLine(n.f))

parse_LWPOLYLINE(c) == PolyLoop(c, read_code_value(c.f, Code("9", "0")))

(***************************************************************************)
(* The streams handed to parse_LWPOLYLINE: the count under code 90, then   *)
(* up to MaxPolyLines lines drawn from POLY_LINES; the last line of the    *)
(* stream may lack its newline.                                            *)
(***************************************************************************)
MaxPolyLines == 3

POLY_COUNTS == << <<"0">>, <<"1">>, <<"2">> >>

POLY_LINES ==
    << NL(<<"1", ".", "5">>), NL(Code("2", "0")), NL(<<"2", ".", "5">>),
       NL(ENTITY_TYPE), NL(T_LINE) >>

\* the stream without the newline of its last line
Unterminated(lines) ==
    [i \in 1..Len(lines) |->
        IF i = Len(lines) THEN Take(lines[i], Len(lines[i]) - 1) ELSE lines[i]]

PolyStream(count, body) == <<NL(Code("9", "0")), NL(count)>> \o body

InitPoly ==
    /\ \E k \in 1..Len(POLY_COUNTS) :
         \E n \in 0..MaxPolyLines :
            \E choice \in [1..n -> 1..Len(POLY_LINES)] :
               \E whole \in BOOLEAN :
                  LET lines == PolyStream(POLY_COUNTS[k],
                                          [i \in 1..n |-> POLY_LINES[choice[i]]])
                  IN  f = [lines |-> IF whole THEN lines ELSE Unterminated(lines),
                           pos |-> 1]
    /\ POINTS = <<>>
    /\ SEQUENCES = <<>>
    /\ calls = <<>>
    /\ layers = <<>>
    /\ result = <<>>
    /\ entity_type = UNSET
    /\ layer_name = UNSET
    /\ pc = "poly"
    /\ branch = "none"
    /\ invalidated = {}
    /\ out = UNSET
    /\ seen = {}
    /\ poly = UNSET

PolyDecode ==
    /\ pc = "poly"
    /\ LET d == parse_LWPOLYLINE([f |-> f,
                                  reg |-> [POINTS |-> POINTS,
                                           SEQUENCES |-> SEQUENCES,
                                           calls |-> calls]])
       IN  /\ f' = d.c.f
           /\ POINTS' = d.c.reg.POINTS
           /\ SEQUENCES' = d.c.reg.SEQUENCES
           /\ calls' = d.c.reg.calls
           /\ poly' = [raised |-> d.raised, points |-> d.ret]
    /\ pc' = "polydone"
    /\ UNCHANGED <<layers, result, entity_type, layer_name, branch,
                   invalidated, out, seen>>

NextPoly == PolyDecode

SpecPoly == InitPoly /\ [][NextPoly]_vars

\* what the decoder is to do on a stream, the position being that of the
\* first vertex and n the number of vertices still to read: it stops, at
\* the line not consumed, when the stream ends or the line is the marker
RECURSIVE VerticesRead(_, _, _)
VerticesRead(stream, n, count) ==
    LET r == ReadLine(stream)
    IN  IF n = 0 THEN [count |-> count, f |-> stream, early |-> FALSE]
        ELSE IF r.line = <<>> \/ Strip(r.line) = Strip(ENTITY_TYPE)
        THEN [count |-> count, f |-> stream, early |-> TRUE]
        ELSE VerticesRead(read_code_value(r.f, Code("2", "0")).f, n - 1, count + 1)

\* the same, for the stream the call started on
Declared == read_code_value([f EXCEPT !.pos = 1], Code("9", "0"))

StopsAt == VerticesRead(Declared.f, DigitsToNat(Declared.val), 0)

\* C17: when the stream ends or the line read for a vertex is the marker
\* "  0" before the declared number of vertices is read, the LWPOLYLINE
\* decoder returns the polyline of the vertices read so far: it raises no
\* error and leaves the marker and the lines after it in the stream.
C17_StopsAtMarker ==
    (pc = "polydone" /\ StopsAt.early) =>
        /\ poly.raised = "none"
        /\ Cardinality(poly.points) = StopsAt.count
        /\ f.pos = StopsAt.f.pos

\* the failure met on well-formed input: the marker line ends with its
\* newline, the vertex count is not reached, and the call raises
C17_MarkerRaises ==
    /\ pc = "polydone"
    /\ StopsAt.early
    /\ StopsAt.f.pos <= Len(f.lines)
    /\ f.lines[StopsAt.f.pos] = NL(ENTITY_TYPE)
    /\ poly.raised = "TypeError"
    /\ f.pos > StopsAt.f.pos

\* the steps the run has left at most: the entity loop is entered from the
\* section loop at the cost of the two lines of a section tag
Rank ==
    CASE pc = "entities" -> 3
      [] pc = "sections" -> 2
      [] pc = "export" -> 1
      [] OTHER -> 0

Measure == 4 * ((Len(f.lines) + 1) - f.pos) + Rank

\* some branch of the loop the run is in, or the export, can be taken
CanStep ==
    \/ /\ pc = "sections"
       /\ \/ Section.val = ENDOFFILE
          \/ Section.val = T_ENTITIES
          \/ Section.val \notin {ENDOFFILE, T_ENTITIES}
    \/ /\ pc = "entities"
       /\ \/ AtEnd
          \/ ~AtEnd /\ IsNumeric(TypeRead.val)
          \/ ~AtEnd /\ ~IsNumeric(TypeRead.val) /\ TypeRead.val \notin ENTITY_PARSERS
          \/ HasParser /\ Mixed
          \/ HasParser /\ ~Mixed /\ ~HasLayer(layers, NameRead.val) /\ Rejected(Attrs)
          \/ HasParser /\ ~Mixed /\ ~(~HasLayer(layers, NameRead.val) /\ Rejected(Attrs))
    \/ pc = "export"

\* C18: on every finite stream the section loop of parse_dxf and the entity
\* loop of parse_entities terminate: every iteration consumes at least one
\* line or meets the end of the stream, the sentinel ENDOFFILE (or ENDSEC,
\* in the entity loop) ends the loop it is met in, and the run reaches the
\* export step: every step lowers a natural-number measure, and a run that
\* has not exported yet can take a step.
C18_LoopsTerminate ==
    /\ [](pc # "done" => CanStep)
    /\ [](Measure >= 0)
    /\ [][/\ pc \in {"sections", "entities"} =>
                \/ f'.pos > f.pos
                \/ f.pos > Len(f.lines) /\ pc' # pc
          /\ (pc = "sections" /\ Section.val = ENDOFFILE) => pc' = "export"
          /\ (pc = "entities" /\ TypeRead.val \in {ENDOFFILE, T_ENDSEC})
                => pc' = "sections"
          /\ Measure' < Measure]_vars

\* a file that ends in the middle of an entity has been parsed and exported
C18_Witness ==
    /\ pc = "done"
    /\ entity_type = ENDOFFILE
    /\ Len(f.lines) % 2 = 1
    /\ f.pos = Len(f.lines) + 1
    /\ \E i \in 1..Len(POINTS) : HasSentinel(POINTS[i].p)

\* C19: the k-th Point of the registry, in insertion order, has id k; so in
\* the exported file the k-th line of section 4 holds the coordinates of the
\* Point that the records of sections 1 and 5 reference as id k, and every
\* id referenced there is between 1 and the number of section-4 lines.
C19_RegistryOrderIsId ==
    /\ \A k \in 1..Len(POINTS) : POINTS[k].p.id = k
    /\ pc = "done" =>
          \A i \in 1..Len(result) :
              \A p \in LayerPoints(result[i]) :
                  /\ p.id \in 1..Len(out.s4)
                  /\ out.s4[p.id] = <<p.x, p.y, p.z>>

\* the next entity has a decoder and is handed to it
ArrivesDecoded ==
    /\ pc = "entities"
    /\ HasParser
    /\ ~Mixed
    /\ ~(~HasLayer(layers, NameRead.val) /\ Rejected(Attrs))

\* C20: the decoding of an entity consumes no line at or beyond the next
\* entity marker, even when the entity lacks one of its coordinate codes;
\* so the entity after a POINT, LINE or 3DFACE is still met by
\* parse_entities, and none of its values goes into the Points of the
\* entity before it.
C20_DecoderStopsAtMarker ==
    [][/\ ArrivesDecoded =>
             \A i \in TrueMarkers : ~(NameRead.f.pos <= i /\ i < f'.pos)
       /\ (pc = "entities" /\ AtEnd) =>
             \A j, i \in TrueMarkers :
                 (/\ NextMarker(j, i)
                  /\ j \in seen'
                  /\ TypeAt(j) \in {T_POINT, T_LINE, T_3DFACE}
                  /\ TypeAt(i) \in ENTITY_PARSERS
                  /\ i < f'.pos)
                     => i \in seen']_vars

====
